---- MODULE Spec2Model ----
(***************************************************************************)
(* RSA accumulator engine (src/src/rsa.rs): the struct RsaAccumulator      *)
(* {g, n, a_t, s} and its operations, as a state machine.  The helper      *)
(* crates the engine imports (crate::math, crate::proofs, crate::primes)   *)
(* are modelled from their documented contracts.                           *)
(***************************************************************************)
EXTENDS Integers, Sequences, FiniteSets, TLC

\* ------------------------------------------------------------------ bounds

\* Number of element primes a caller may ever hand to the engine.
MaxPrimes == 3

\* Longest list handed to batch_add / batch_del.
MaxBatch == 3

\* ------------------------------------------------------- setup parameters

\* generate_primes: two safe primes p = 2p'+1, q = 2q'+1 (p' = 89, q' = 113).
SetupP == 179

SetupQ == 227

\* generate_primes: the generator, a quadratic residue modulo n (2^2); its
\* order is p'q' = 10057.
SetupG == 4

\* gen_prime: the element primes callers accumulate.  As for cryptographic
\* sizes, every element is coprime to the group order and no two products of
\* distinct elements agree modulo the order of g.
PrimePool == <<3, 5, 7, 11, 13, 17>>

Primes == { PrimePool[i] : i \in 1..MaxPrimes }

\* Option<T>: None is the empty sequence, Some(v) the one-element sequence.
None == <<>>

Some(v) == <<v>>

\* ------------------------------------------------------------ crate::math

\* BigUint::modpow: base^e mod m by square and multiply.
RECURSIVE modpow(_, _, _)
modpow(b, e, m) ==
    IF e = 0 THEN 1 % m
    ELSE LET h == modpow(b, e \div 2, m)
             sq == (h * h) % m
         IN  IF e % 2 = 1 THEN (sq * (b % m)) % m ELSE sq

\* extended_gcd(a, b) = <<gcd, x, y>> with x*a + y*b = gcd (Euclid).
RECURSIVE extended_gcd(_, _)
extended_gcd(a, b) ==
    IF b = 0 THEN <<a, 1, 0>>
    ELSE LET r == extended_gcd(b, a % b)
         IN  <<r[1], r[3], r[2] - (a \div b) * r[3]>>

\* ModInverse::mod_inverse: a^-1 mod m in [1, m), None when gcd(a, m) # 1.
mod_inverse(a, m) ==
    LET r == extended_gcd(a % m, m)
    IN  IF r[1] # 1 THEN None ELSE Some(r[2] % m)

\* modpow_uint_int: modpow with a signed exponent; a negative exponent
\* inverts base^(-e), and fails (None) when that has no inverse.
modpow_uint_int(b, e, m) ==
    IF e >= 0 THEN Some(modpow(b, e, m))
    ELSE mod_inverse(modpow(b, 0 - e, m), m)

\* shamir_trick: with (1, alpha, beta) = extended_gcd(x, y),
\* w = w_x^beta * w_y^alpha mod n; None when gcd(x, y) # 1.
shamir_trick(w_x, w_y, x, y, m) ==
    LET r == extended_gcd(x, y)
        p1 == modpow_uint_int(w_x, r[3], m)
        p2 == modpow_uint_int(w_y, r[2], m)
    IN  IF r[1] # 1 \/ p1 = None \/ p2 = None THEN None
        ELSE Some((p1[1] * p2[1]) % m)

\* Product of a list of integers.
RECURSIVE product(_)
product(xs) == IF xs = <<>> THEN 1 ELSE Head(xs) * product(Tail(xs))

\* root_factor(g, [s_1..s_k], n) = [g^(S/s_i) mod n], by halving.
RECURSIVE root_factor(_, _, _)
root_factor(b, elems, m) ==
    IF Len(elems) <= 1 THEN <<b>>
    ELSE LET h == Len(elems) \div 2
             l == SubSeq(elems, 1, h)
             r == SubSeq(elems, h + 1, Len(elems))
             g_l == modpow(b, product(l), m)
             g_r == modpow(b, product(r), m)
         IN  root_factor(g_r, l, m) \o root_factor(g_l, r, m)

\* ---------------------------------------------------------- crate::proofs

\* The primes the Fiat-Shamir hash resolves to.
ChallengePrimes == <<2, 3, 5, 7>>

\* The hash of a transcript (a deterministic mixing of its integers).
RECURSIVE hash_transcript(_)
hash_transcript(t) ==
    IF t = <<>> THEN 7
    ELSE (31 * hash_transcript(Tail(t)) + Head(t)) % 1009

\* H_prime: the challenge prime of a transcript.
hash_prime(t) ==
    ChallengePrimes[(hash_transcript(t) % Len(ChallengePrimes)) + 1]

\* ni_poe_prove(x, u, w, n): Q = u^floor(x / l), l = H_prime(x, u, w).
ni_poe_prove(x, u, w, m) ==
    LET l == hash_prime(<<x, u, w>>)
    IN  modpow(u, x \div l, m)

\* ni_poe_verify(x, u, w, Q, n): Q^l * u^(x mod l) = w (mod n).
ni_poe_verify(x, u, w, q, m) ==
    LET l == hash_prime(<<x, u, w>>)
    IN  (modpow(q, l, m) * modpow(u, x % l, m)) % m = w

\* The base of z in NI-PoKE2: the accumulator's generator.
poke_base == SetupG

\* ni_poke2_prove(b, u, w, n): (z, Q, r) with z = g^b, l = H_prime(u, w, z),
\* alpha = H_prime(u, w, z, l), b = q*l + r with 0 <= r < l, and
\* Q = (u * g^alpha)^q; None where a needed inverse does not exist.
ni_poke2_prove(b, u, w, m) ==
    LET z == modpow_uint_int(poke_base, b, m)
    IN  IF z = None THEN None
        ELSE LET l == hash_prime(<<u, w, z[1]>>)
                 alpha == hash_prime(<<u, w, z[1], l>>)
                 base == (u * modpow(poke_base, alpha, m)) % m
                 q == modpow_uint_int(base, b \div l, m)
             IN  IF q = None THEN None ELSE Some(<<z[1], q[1], b % l>>)

\* ni_poke2_verify(u, w, (z, Q, r), n): 0 <= r < l and
\* Q^l * (u * g^alpha)^r = w * z^alpha (mod n).
ni_poke2_verify(u, w, z, q, r, m) ==
    LET l == hash_prime(<<u, w, z>>)
        alpha == hash_prime(<<u, w, z, l>>)
        base == (u * modpow(poke_base, alpha, m)) % m
    IN  /\ 0 <= r
        /\ r < l
        /\ (modpow(q, l, m) * modpow(base, r, m)) % m
             = (w * modpow(z, alpha, m)) % m

\* ------------------------------------------------------------------ state

VARIABLES
    g,        \* RsaAccumulator.g
    n,        \* RsaAccumulator.n
    a_t,      \* RsaAccumulator.a_t, the digest
    s,        \* RsaAccumulator.s, the product of the current set
    debug,    \* whether the build keeps debug_assert! (debug) or drops it (release)
    op,       \* the operation that returned last
    args,     \* its arguments: [xs: exponents, ws: group elements]
    ret,      \* its result: [tag, val]
    pre_s,    \* s when it was called
    pre_a,    \* a_t when it was called (the caller's snapshot of state())
    used,     \* caller's book-keeping: primes ever added
    members   \* caller's book-keeping: primes added and not removed since

vars == <<g, n, a_t, s, debug, op, args, ret, pre_s, pre_a, used, members>>

Unit == [tag |-> "unit", val |-> <<>>]

Panic == [tag |-> "panic", val |-> <<>>]

RetNone == [tag |-> "None", val |-> <<>>]

RetSome(v) == [tag |-> "Some", val |-> v]

RetBool(b) == [tag |-> IF b THEN "true" ELSE "false", val |-> <<>>]

RetValue(v) == [tag |-> "value", val |-> v]

\* A panic unwinds the caller: nothing is called on the engine afterwards.
Running == ret.tag # "panic"

\* The struct invariant the debug_assert!s of add and mem_wit_create test.
valid_state == modpow(g, s, n) = a_t

\* setup: a_t = g, s = 1.
Init ==
    /\ n = SetupP * SetupQ
    /\ g = SetupG
    /\ a_t = SetupG
    /\ s = 1
    /\ debug \in BOOLEAN
    /\ op = "setup"
    /\ args = [xs |-> <<>>, ws |-> <<>>]
    /\ ret = Unit
    /\ pre_s = 1
    /\ pre_a = SetupG
    /\ used = {}
    /\ members = {}

\* What a call leaves behind besides the engine's fields.
Called(name, xs, ws) ==
    /\ op' = name
    /\ args' = [xs |-> xs, ws |-> ws]
    /\ pre_s' = s
    /\ pre_a' = a_t
    /\ UNCHANGED <<g, n, debug>>

\* ------------------------------------------------------ StaticAccumulator

\* add(x): [s, a_t, ret] after the call.
add(x) ==
    IF debug /\ ~valid_state
    THEN [s |-> s, a_t |-> a_t, ret |-> Panic]
    ELSE [s |-> s * x, a_t |-> modpow(a_t, x, n), ret |-> Unit]

Add(x) ==
    /\ Running
    /\ x \in Primes \ used
    /\ LET r == add(x)
       IN  /\ s' = r.s
           /\ a_t' = r.a_t
           /\ ret' = r.ret
    /\ Called("add", <<x>>, <<>>)
    /\ used' = used \cup {x}
    /\ members' = members \cup {x}

\* mem_wit_create whose only assertion is the one on the state.
mem_wit_create_any_remainder(x) ==
    IF debug /\ ~valid_state THEN Panic
    ELSE RetValue(<<modpow(g, s \div x, n)>>)

\* mem_wit_create(x): the witness g^(s/x), or a panic where a debug
\* assertion fails.
mem_wit_create(x) ==
    IF debug /\ (~valid_state \/ s % x # 0) THEN Panic
    ELSE RetValue(<<modpow(g, s \div x, n)>>)

\* ver_mem(w, x): w^x mod n == a_t.
ver_mem(w, x) == modpow(w, x, n) = a_t

\* ----------------------------------------------------- DynamicAccumulator

\* A del that leaves the digest as it was (line 90 forgotten).
del_keeps_digest(x) ==
    LET new_s == s \div x
    IN  IF new_s = s
        THEN [s |-> new_s, a_t |-> a_t, ret |-> RetNone]
        ELSE [s |-> new_s, a_t |-> a_t, ret |-> RetSome(<<>>)]

\* del(x): [s, a_t, ret] after the call.
del(x) ==
    LET new_s == s \div x
    IN  IF new_s = s
        THEN [s |-> new_s, a_t |-> a_t, ret |-> RetNone]
        ELSE [s |-> new_s, a_t |-> modpow(g, new_s, n), ret |-> RetSome(<<>>)]

Del(x) ==
    /\ Running
    /\ LET r == del(x)
       IN  /\ s' = r.s
           /\ a_t' = r.a_t
           /\ ret' = r.ret
    /\ Called("del", <<x>>, <<>>)
    /\ members' = members \ {x}
    /\ UNCHANGED used

\* -------------------------------------------------- UniversalAccumulator

\* non_mem_wit_create(x): (d, b) with (_, a, b) = extended_gcd(x, s) and
\* d = g^a; the expect panics where g^a does not exist.
non_mem_wit_create(x) ==
    LET r == extended_gcd(x, s)
        d == modpow_uint_int(g, r[2], n)
    IN  IF d = None THEN Panic ELSE RetValue(<<d[1], r[3]>>)

\* ver_non_mem((d, b), x): d^x * a_t^b == g (mod n); the expect panics
\* where a_t^b does not exist.
ver_non_mem(d, b, x) ==
    LET a_b == modpow_uint_int(a_t, b, n)
    IN  IF a_b = None THEN Panic
        ELSE RetBool((modpow(d, x, n) * a_b[1]) % n = g)

\* ----------------------------------------------------- BatchedAccumulator

\* A batch_add that proves from the digest it has already updated (the
\* clone of line 128 taken after line 129).
batch_add_proves_from_new_digest(xs) ==
    LET x_star == product(xs)
        new_a_t == modpow(a_t, x_star, n)
    IN  [s |-> s * x_star, a_t |-> new_a_t,
         ret |-> RetValue(<<ni_poe_prove(x_star, new_a_t, new_a_t, n)>>)]

\* batch_add(xs): [s, a_t, ret] after the call; ret is the NI-PoE proof.
batch_add(xs) ==
    LET x_star == product(xs)
        new_a_t == modpow(a_t, x_star, n)
    IN  [s |-> s * x_star, a_t |-> new_a_t,
         ret |-> RetValue(<<ni_poe_prove(x_star, a_t, new_a_t, n)>>)]

\* ver_batch_add(w, a_t, xs): NI-PoE of A^(prod xs) = current digest.
ver_batch_add(w, A, xs) == ni_poe_verify(product(xs), A, a_t, w, n)

\* The for loop of batch_del from pair i on: the running witness, the
\* running exponent and self.s; a failed shamir_trick unwraps to a panic
\* with self.s as the loop left it.
RECURSIVE batch_del_loop(_, _, _, _, _, _)
batch_del_loop(xs, ws, i, new_a_t, x_star, cur_s) ==
    IF i > Len(xs)
    THEN [panic |-> FALSE, new_a_t |-> new_a_t, x_star |-> x_star, s |-> cur_s]
    ELSE LET st == shamir_trick(new_a_t, ws[i], x_star, xs[i], n)
         IN  IF st = None
             THEN [panic |-> TRUE, new_a_t |-> new_a_t, x_star |-> x_star,
                   s |-> cur_s]
             ELSE batch_del_loop(xs, ws, i + 1, st[1], x_star * xs[i],
                                 cur_s \div xs[i])

\* A batch_del that proves as batch_add does, from the old digest to the
\* new one (the base and the result of line 163 exchanged).
batch_del_proves_like_add(xs, ws) ==
    IF xs = <<>> THEN [s |-> s, a_t |-> a_t, ret |-> RetNone]
    ELSE LET r == batch_del_loop(xs, ws, 2, ws[1], xs[1], s)
         IN  IF r.panic THEN [s |-> r.s, a_t |-> a_t, ret |-> Panic]
             ELSE [s |-> r.s, a_t |-> r.new_a_t,
                   ret |-> RetSome(<<ni_poe_prove(r.x_star, a_t, r.new_a_t, n)>>)]

\* batch_del(pairs), pairs[i] = (xs[i], ws[i]): [s, a_t, ret] after the call.
batch_del(xs, ws) ==
    IF xs = <<>> THEN [s |-> s, a_t |-> a_t, ret |-> RetNone]
    ELSE LET r == batch_del_loop(xs, ws, 2, ws[1], xs[1], s)
         IN  IF r.panic THEN [s |-> r.s, a_t |-> a_t, ret |-> Panic]
             ELSE [s |-> r.s, a_t |-> r.new_a_t,
                   ret |-> RetSome(<<ni_poe_prove(r.x_star, r.new_a_t, a_t, n)>>)]

\* ver_batch_del(w, a_t, xs): NI-PoE of (current digest)^(prod xs) = A.
ver_batch_del(w, A, xs) == ni_poe_verify(product(xs), a_t, A, w, n)

\* A del_w_mem that does not check its witness (lines 176-178 left out).
del_w_mem_unchecked(w, x) ==
    [s |-> s \div x, a_t |-> w, ret |-> RetSome(<<>>)]

\* del_w_mem(w, x): [s, a_t, ret] after the call.
del_w_mem(w, x) ==
    IF ~ver_mem(w, x) THEN [s |-> s, a_t |-> a_t, ret |-> RetNone]
    ELSE [s |-> s \div x, a_t |-> w, ret |-> RetSome(<<>>)]

\* create_all_mem_wit(list): root_factor over the caller's list.
create_all_mem_wit(list) == root_factor(g, list, n)

\* agg_mem_wit(w_x, w_y, x, y): (w_xy, pi); the unwrap of shamir_trick and,
\* in a debug build, the assertion w_xy^(xy) == a_t can panic.
agg_mem_wit(w_x, w_y, x, y) ==
    LET st == shamir_trick(w_x, w_y, x, y, n)
        xy == x * y
    IN  IF st = None THEN Panic
        ELSE IF debug /\ modpow(st[1], xy, n) # a_t THEN Panic
        ELSE RetValue(<<st[1], ni_poe_prove(xy, st[1], a_t, n)>>)

\* ver_agg_mem_wit(w_xy, pi, x, y): NI-PoE of w_xy^(xy) = current digest.
ver_agg_mem_wit(w_xy, pi, x, y) == ni_poe_verify(x * y, w_xy, a_t, pi, n)

\* mem_wit_create_star(x): (w_x, pi) with pi the NI-PoE of w_x^x = a_t; in a
\* debug build it panics where mem_wit_create does or where w_x == a_t.
mem_wit_create_star(x) ==
    LET w_x == mem_wit_create(x)
    IN  IF w_x.tag = "panic" THEN Panic
        ELSE IF debug /\ a_t = w_x.val[1] THEN Panic
        ELSE RetValue(<<w_x.val[1], ni_poe_prove(x, w_x.val[1], a_t, n)>>)

\* ver_mem_star(x, (w, pi)): NI-PoE of w^x = current digest.
ver_mem_star(x, w, pi) == ni_poe_verify(x, w, a_t, pi, n)

\* mem_wit_x(other, w_x, w_y, x, y): w_x * w_y mod n.
mem_wit_x(other, w_x, w_y, x, y) == (w_x * w_y) % n

\* ver_mem_x without the coprimality test.
ver_mem_x_any_pair(other, pi, x, y) ==
    LET rhs_a == modpow(a_t, y, n)
        rhs_b == modpow(other, x, n)
    IN  modpow(pi, x * y, n) = (rhs_a * rhs_b) % n

\* ver_mem_x(other, pi, x, y): false unless gcd(x, y) = 1; then
\* pi^(x*y) == a_t^y * other^x (mod n).
ver_mem_x(other, pi, x, y) ==
    IF extended_gcd(x, y)[1] # 1 THEN FALSE
    ELSE LET rhs_a == modpow(a_t, y, n)
             rhs_b == modpow(other, x, n)
         IN  modpow(pi, x * y, n) = (rhs_a * rhs_b) % n

\* non_mem_wit_create_star(x): (d, v, (z, Q, r), pi_g) as the list
\* <<d, v, z, Q, r, pi_g>>; each expect panics where its value is missing.
non_mem_wit_create_star(x) ==
    LET r == extended_gcd(x, s)
        d == modpow_uint_int(g, r[2], n)
        v == modpow_uint_int(a_t, r[3], n)
    IN  IF d = None \/ v = None THEN Panic
        ELSE LET pi_d == ni_poke2_prove(r[3], a_t, v[1], n)
                 inv == mod_inverse(v[1], n)
             IN  IF pi_d = None \/ inv = None THEN Panic
                 ELSE LET k == (g * inv[1]) % n
                      IN  RetValue(<<d[1], v[1], pi_d[1][1], pi_d[1][2],
                                     pi_d[1][3], ni_poe_prove(x, d[1], k, n)>>)

\* ver_non_mem_star(x, (d, v, (z, Q, r), pi_g)): false where the NI-PoKE2
\* fails; then the expect on v^-1 panics where v has no inverse; then the
\* NI-PoE of d^x = g * v^-1.
ver_non_mem_star(x, d, v, z, q, r, pi_g) ==
    IF ~ni_poke2_verify(a_t, v, z, q, r, n) THEN RetBool(FALSE)
    ELSE LET inv == mod_inverse(v, n)
         IN  IF inv = None THEN Panic
             ELSE RetBool(ni_poe_verify(x, d, (g * inv[1]) % n, pi_g, n))

\* ----------------------------------------------------- the callers' inputs

Range(q) == { q[i] : i \in 1..Len(q) }

\* The lists of at most k distinct elements of S.
RECURSIVE DistinctSeqs(_, _)
DistinctSeqs(S, k) ==
    IF k = 0 THEN {<<>>}
    ELSE LET shorter == DistinctSeqs(S, k - 1)
         IN  shorter \cup
             UNION { { Append(q, x) : x \in S \ Range(q) } :
                     q \in { t \in shorter : Len(t) = k - 1 } }

\* The lists of at most MaxBatch distinct elements of T, for every set T of
\* elements.
BatchLists == [T \in SUBSET Primes |-> DistinctSeqs(T, MaxBatch)]

\* A set of integers as an ascending list.
RECURSIVE SortedSeq(_)
SortedSeq(S) ==
    IF S = {} THEN <<>>
    ELSE LET m == CHOOSE v \in S : \A u \in S : v <= u
         IN  <<m>> \o SortedSeq(S \ {m})

\* What create_all_mem_wit returns at x's position for the list of the
\* elements of T, for every set T of elements and every x of T.
WitnessTable ==
    [T \in SUBSET Primes |->
       [x \in T |->
          LET list == SortedSeq(T)
              i == CHOOSE j \in 1..Len(list) : list[j] = x
          IN  root_factor(SetupG, list, SetupP * SetupQ)[i]]]

\* The witnesses a caller holds for x: the one for the current set, and stale
\* ones (for x alone, and for everything ever added).
WitnessesFor(x) ==
    { WitnessTable[T][x] : T \in {members \cup {x}, used \cup {x}, {x}} }

\* The witness lists for xs whose every entry verifies against the digest.
RECURSIVE VerifyingWitnessLists(_)
VerifyingWitnessLists(xs) ==
    IF xs = <<>> THEN {<<>>}
    ELSE { <<w>> \o rest :
             w \in { v \in WitnessesFor(Head(xs)) : ver_mem(v, Head(xs)) },
             rest \in VerifyingWitnessLists(Tail(xs)) }

\* ------------------------------------------------------------ the mutators

BatchAdd(xs) ==
    /\ Running
    /\ LET r == batch_add(xs)
       IN  /\ s' = r.s
           /\ a_t' = r.a_t
           /\ ret' = r.ret
    /\ Called("batch_add", xs, <<>>)
    /\ used' = used \cup Range(xs)
    /\ members' = members \cup Range(xs)

BatchDel(xs, ws) ==
    /\ Running
    /\ LET r == batch_del(xs, ws)
       IN  /\ s' = r.s
           /\ a_t' = r.a_t
           /\ ret' = r.ret
    /\ Called("batch_del", xs, ws)
    /\ members' = IF xs = <<>> THEN members ELSE members \ Range(xs)
    /\ UNCHANGED used

DelWMem(w, x) ==
    /\ Running
    /\ LET r == del_w_mem(w, x)
       IN  /\ s' = r.s
           /\ a_t' = r.a_t
           /\ ret' = r.ret
           /\ members' = IF r.ret = RetNone THEN members ELSE members \ {x}
    /\ Called("del_w_mem", <<x>>, <<w>>)
    /\ UNCHANGED used

\* Calls that respect the documented preconditions: fresh distinct primes
\* are added; elements of the set are deleted, with verifying witnesses
\* where witnesses are passed (del_w_mem checks its witness itself).
Next ==
    \/ \E x \in Primes : Add(x)
    \/ \E x \in members : Del(x)
    \/ \E xs \in BatchLists[Primes \ used] : BatchAdd(xs)
    \/ \E xs \in BatchLists[members] :
         \E ws \in VerifyingWitnessLists(xs) : BatchDel(xs, ws)
    \/ \E x \in Primes : \E w \in WitnessesFor(x) : DelWMem(w, x)

Spec == Init /\ [][Next]_vars

\* Calls outside the preconditions as well: del of a prime that is not in
\* the set.
NextMisuse ==
    \/ \E x \in Primes : Add(x)
    \/ \E x \in Primes : Del(x)
    \/ \E xs \in BatchLists[Primes \ used] : BatchAdd(xs)
    \/ \E xs \in BatchLists[members] :
         \E ws \in VerifyingWitnessLists(xs) : BatchDel(xs, ws)
    \/ \E x \in Primes : \E w \in WitnessesFor(x) : DelWMem(w, x)

SpecMisuse == Init /\ [][NextMisuse]_vars

\* ------------------------------------------------- the verification calls

\* A call that takes &self: the engine's fields stay as they are.
Query(name, xs, ws, result) ==
    /\ Running
    /\ ret' = result
    /\ Called(name, xs, ws)
    /\ UNCHANGED <<s, a_t, used, members>>

\* What a creating call answered, as the input of the verifying call.
Answers(r) == IF r.tag = "value" THEN {r.val} ELSE {}

\* The unsigned values the last call returned, and 0.
LastProofs == { v \in Range(ret.val) : v >= 0 } \cup {0}

\* agg_mem_wit's answers for x and y with the caller's verifying witnesses.
AggAnswers(x, y) ==
    UNION { Answers(agg_mem_wit(w_x, w_y, x, y)) :
              w_x \in { v \in WitnessesFor(x) : ver_mem(v, x) },
              w_y \in { v \in WitnessesFor(y) : ver_mem(v, y) } }

VerMem(w, x) ==
    Query("ver_mem", <<x>>, <<w>>, RetBool(ver_mem(w, x)))

VerNonMem(d, b, x) ==
    Query("ver_non_mem", <<x>>, <<d, b>>, ver_non_mem(d, b, x))

VerBatchAdd(w, A, xs) ==
    Query("ver_batch_add", xs, <<w, A>>, RetBool(ver_batch_add(w, A, xs)))

VerBatchDel(w, A, xs) ==
    Query("ver_batch_del", xs, <<w, A>>, RetBool(ver_batch_del(w, A, xs)))

VerAggMemWit(w_xy, pi, x, y) ==
    Query("ver_agg_mem_wit", <<x, y>>, <<w_xy, pi>>,
          RetBool(ver_agg_mem_wit(w_xy, pi, x, y)))

VerMemStar(x, w, pi) ==
    Query("ver_mem_star", <<x>>, <<w, pi>>, RetBool(ver_mem_star(x, w, pi)))

VerMemX(other, pi, x, y) ==
    Query("ver_mem_x", <<x, y>>, <<other, pi>>,
          RetBool(ver_mem_x(other, pi, x, y)))

VerNonMemStar(x, d, v, z, q, r, pi_g) ==
    Query("ver_non_mem_star", <<x>>, <<d, v, z, q, r, pi_g>>,
          ver_non_mem_star(x, d, v, z, q, r, pi_g))

\* The verification calls, on what the creating calls answered and on
\* ill-formed witnesses and proofs (zeros, a negative b).
NextVerify ==
    \/ Next
    \/ \E x \in Primes : \E w \in WitnessesFor(x) : VerMem(w, x)
    \/ \E x \in Primes :
         \E w \in Answers(non_mem_wit_create(x)) \cup {<<0, 0 - 1>>} :
           VerNonMem(w[1], w[2], x)
    \/ \E w \in LastProofs : VerBatchAdd(w, pre_a, args.xs)
    \/ \E w \in LastProofs : VerBatchDel(w, pre_a, args.xs)
    \/ \E x \in Primes : \E y \in { p \in Primes : p > x } :
         \E w \in AggAnswers(x, y) \cup {<<0, 0>>} :
           VerAggMemWit(w[1], w[2], x, y)
    \/ \E x \in Primes :
         \E w \in Answers(mem_wit_create_star(x)) \cup {<<0, 0>>} :
           VerMemStar(x, w[1], w[2])
    \/ \E x \in Primes : \E y \in Primes :
         \E w_x \in {WitnessTable[members \cup {x}][x]} :
           VerMemX(modpow(g, y, n),
                   mem_wit_x(modpow(g, y, n), w_x, g, x, y), x, y)
    \/ \E x \in Primes :
         \E w \in Answers(non_mem_wit_create_star(x))
                    \cup {<<0, 0, 0, 0, 0, 0>>} :
           VerNonMemStar(x, w[1], w[2], w[3], w[4], w[5], w[6])

SpecVerify == Init /\ [][NextVerify]_vars

\* ----------------------------------------------------------------- claims

Mutators == {"add", "del", "batch_add", "batch_del", "del_w_mem"}

\* C1: after every mutator returns (calls within their preconditions), the
\* digest is g^s mod n.
C1_DigestInvariant ==
    (op \in Mutators /\ Running) => a_t = modpow(g, s, n)

\* The round trip of C2 for one x: mem_wit_create answers and ver_mem
\* accepts the answer.
MemRoundTrip(x) ==
    LET w == mem_wit_create(x)
    IN  w.tag = "value" /\ ver_mem(w.val[1], x)

\* C2: for every prime x that divides s, ver_mem(mem_wit_create(x), x) is true.
C2_MembershipRoundTrip ==
    Running => \A x \in Primes : (s % x = 0) => MemRoundTrip(x)

\* The witnesses for x that verified when the last call was made: the one
\* mem_wit_create issued then, those the caller holds, the one it passed.
IssuedBefore(x) ==
    { w \in WitnessesFor(x) \cup Range(args.ws)
               \cup {modpow(g, pre_s \div x, n)} :
        modpow(w, x, n) = pre_a }

\* C3: once del(x), or del_w_mem(w, x) with a verifying w, has removed an
\* accumulated x, no witness that verified for x before the removal verifies
\* against the new digest.
C3_StaleWitnessRejected ==
    (op \in {"del", "del_w_mem"} /\ ret = RetSome(<<>>)) =>
        \A w \in IssuedBefore(args.xs[1]) : ~ver_mem(w, args.xs[1])

C3_Witness ==
    /\ op = "del"
    /\ ret = RetSome(<<>>)
    /\ pre_s % args.xs[1] = 0
    /\ modpow(g, pre_s \div args.xs[1], n) \in IssuedBefore(args.xs[1])
    /\ ~ver_mem(modpow(g, pre_s \div args.xs[1], n), args.xs[1])

\* C4: del(x) with an x that does not divide s returns None and leaves s
\* and a_t as they were.
C4_DelAbsentIsNone ==
    (op = "del" /\ pre_s % args.xs[1] # 0) =>
        (ret = RetNone /\ s = pre_s /\ a_t = pre_a)

\* The round trip of C5 for one y: non_mem_wit_create answers (d, b) and
\* ver_non_mem accepts it.
NonMemRoundTrip(y) ==
    LET w == non_mem_wit_create(y)
    IN  w.tag = "value" /\ ver_non_mem(w.val[1], w.val[2], y) = RetBool(TRUE)

\* C5: for every prime y with gcd(y, s) = 1,
\* ver_non_mem(non_mem_wit_create(y), y) is true.
C5_NonMembershipRoundTrip ==
    Running =>
        \A y \in Primes : (extended_gcd(y, s)[1] = 1) => NonMemRoundTrip(y)

\* C6: the proof batch_add(xs) returns is accepted by
\* ver_batch_add(proof, A_pre, xs) on the state batch_add left.
C6_BatchAddCertificate ==
    (op = "batch_add") =>
        /\ ret.tag = "value"
        /\ ver_batch_add(ret.val[1], pre_a, args.xs)

C6_Witness ==
    /\ op = "batch_add"
    /\ Len(args.xs) >= 2
    /\ pre_s > 1
    /\ a_t # pre_a
    /\ ver_batch_add(ret.val[1], pre_a, args.xs)

\* C7: for a non-empty list of pairs of distinct accumulated primes with
\* witnesses verifying against A_pre, batch_del returns a proof that
\* ver_batch_del(proof, A_pre, xs) accepts on the state it left, and the new
\* digest raised to the product of the x_i is A_pre.
C7_BatchDelCertificate ==
    (op = "batch_del" /\ args.xs # <<>>) =>
        /\ ret.tag = "Some"
        /\ ver_batch_del(ret.val[1], pre_a, args.xs)
        /\ modpow(a_t, product(args.xs), n) = pre_a

C7_Witness ==
    /\ op = "batch_del"
    /\ Len(args.xs) >= 2
    /\ ret.tag = "Some"
    /\ ver_batch_del(ret.val[1], pre_a, args.xs)

\* C8: del_w_mem(w, x) with a witness that does not verify returns None and
\* keeps s, a_t, g and n; with one that verifies it returns Some, s becomes
\* s / x and a_t becomes w.
C8_DelWMemEffect ==
    [][ (op' = "del_w_mem") =>
          IF ver_mem(args'.ws[1], args'.xs[1])
          THEN /\ ret' = RetSome(<<>>)
               /\ s' = s \div args'.xs[1]
               /\ a_t' = args'.ws[1]
          ELSE /\ ret' = RetNone
               /\ s' = s /\ a_t' = a_t /\ g' = g /\ n' = n ]_vars

C8_Witness ==
    /\ op = "del_w_mem"
    /\ ret = RetSome(<<>>)
    /\ pre_s % args.xs[1] = 0
    /\ s = pre_s \div args.xs[1]
    /\ a_t = args.ws[1]
    /\ a_t # pre_a

Verifiers ==
    {"ver_mem", "ver_non_mem", "ver_batch_add", "ver_batch_del",
     "ver_agg_mem_wit", "ver_mem_star", "ver_mem_x", "ver_non_mem_star"}

\* C9: every verification operation returns a boolean, on ill-formed
\* witnesses and proofs too; none aborts.
C9_VerifiersReturnBool ==
    (op \in Verifiers) => ret.tag \in {"true", "false"}

\* The aggregation of C10 for one pair x, y.
AggRoundTrip(x, y) ==
    LET w_x == mem_wit_create(x)
        w_y == mem_wit_create(y)
    IN  /\ w_x.tag = "value"
        /\ w_y.tag = "value"
        /\ LET r == agg_mem_wit(w_x.val[1], w_y.val[1], x, y)
           IN  /\ r.tag = "value"
               /\ ver_agg_mem_wit(r.val[1], r.val[2], x, y)
               /\ modpow(r.val[1], x * y, n) = a_t

\* C10: for accumulated distinct primes x and y, agg_mem_wit of their
\* mem_wit_create witnesses is accepted by ver_agg_mem_wit, and
\* w_xy^(x*y) is the digest.
C10_AggregationSound ==
    Running =>
        \A x \in Primes : \A y \in Primes \ {x} :
            (s % x = 0 /\ s % y = 0) => AggRoundTrip(x, y)

\* The universal round trip of C11 for one prime x.
NonMemStarRoundTrip(x) ==
    LET r == non_mem_wit_create_star(x)
    IN  /\ r.tag = "value"
        /\ ver_non_mem_star(x, r.val[1], r.val[2], r.val[3], r.val[4],
                            r.val[5], r.val[6]) = RetBool(TRUE)

\* C11: for every prime x coprime to s, the proof non_mem_wit_create_star
\* returns for x is accepted by ver_non_mem_star, whatever the sign of the
\* Bezout coefficient b.
C11_NonMemStarRoundTrip ==
    Running =>
        \A x \in Primes :
            (extended_gcd(x, s)[1] = 1) => NonMemStarRoundTrip(x)

\* The second accumulator of C12: a clone of the engine taken after setup
\* (same n and g) that holds the elements of T. Its digest, and its witness
\* for each y of T.
OtherAccumulators ==
    [T \in SUBSET Primes |->
       [state |-> modpow(SetupG, product(SortedSeq(T)), SetupP * SetupQ),
        wit |-> WitnessTable[T]]]

\* The cross-accumulator proof for x here and y in the other accumulator:
\* accepted where gcd(x, y) = 1, rejected where it is not.
MemXRoundTrip(x, w_x, y, other, w_y) ==
    LET pi == mem_wit_x(other, w_x, w_y, x, y)
    IN  ver_mem_x(other, pi, x, y) = (extended_gcd(x, y)[1] = 1)

\* C12: with x held here under a witness w_x that verifies against a_t, and
\* y held by another accumulator with the same n and g under a witness w_y
\* that verifies against its digest, ver_mem_x accepts mem_wit_x's proof
\* when gcd(x, y) = 1, and ver_mem_x returns false when gcd(x, y) # 1.
C12_CrossAccumulator ==
    Running =>
        \A x \in Primes : \A w_x \in WitnessesFor(x) :
            ver_mem(w_x, x) =>
                \A T \in SUBSET Primes : \A y \in T :
                    LET o == OtherAccumulators[T]
                    IN  /\ modpow(o.wit[y], y, n) = o.state
                        /\ MemXRoundTrip(x, w_x, y, o.state, o.wit[y])

\* C12 happens: a verifying witness for x after a deletion, an accepted
\* proof for a coprime y, and a rejected one for y = x.
C12_Witness ==
    /\ Running
    /\ op \in {"del", "batch_del", "del_w_mem"}
    /\ \E x \in members : \E w_x \in WitnessesFor(x) :
          /\ ver_mem(w_x, x)
          /\ \E T \in SUBSET Primes : \E y \in T \ {x} :
                LET o == OtherAccumulators[T]
                IN  /\ x \in T
                    /\ ver_mem_x(o.state, mem_wit_x(o.state, w_x, o.wit[y],
                                                    x, y), x, y)
                    /\ ~ver_mem_x(o.state, mem_wit_x(o.state, w_x, o.wit[x],
                                                     x, x), x, x)

\* The lists a caller can hand to create_all_mem_wit under its precondition:
\* distinct primes, in any order, whose product is s.
FactorLists == { list \in BatchLists[Primes] : product(list) = s }

\* C13: for every list of distinct primes whose product is s,
\* create_all_mem_wit(list) holds g^(S/s_i) mod n at each position i, and
\* each w_i passes ver_mem(w_i, s_i) against the current digest.
C13_AllWitnesses ==
    Running =>
        \A list \in FactorLists :
            LET ws == create_all_mem_wit(list)
            IN  \A i \in 1..Len(list) :
                    /\ Len(ws) = Len(list)
                    /\ ws[i] = modpow(g, product(list) \div list[i], n)
                    /\ ver_mem(ws[i], list[i])

\* The round trip of C14 for one x: mem_wit_create_star answers and
\* ver_mem_star accepts the answer.
MemStarRoundTrip(x) ==
    LET r == mem_wit_create_star(x)
    IN  r.tag = "value" /\ ver_mem_star(x, r.val[1], r.val[2])

\* C14: for every accumulated prime x, the (witness, proof) pair that
\* mem_wit_create_star(x) returns is accepted by ver_mem_star.
C14_MemStarRoundTrip ==
    Running =>
        \A x \in members : (s % x = 0) => MemStarRoundTrip(x)

\* mem_wit_create called by a caller, for any prime, in the set or not.
MemWitCreate(x) ==
    Query("mem_wit_create", <<x>>, <<>>, mem_wit_create(x))

NextCreate ==
    \/ Next
    \/ \E x \in Primes : MemWitCreate(x)

SpecCreate == Init /\ [][NextCreate]_vars

\* C15 as the spec states it: mem_wit_create(x) with x not dividing s fails
\* instead of returning a witness value.
C15_FailsOutsidePrecondition ==
    (op = "mem_wit_create" /\ s % args.xs[1] # 0) => ret.tag = "panic"

\* C15: mem_wit_create(x) with x not dividing s fails where debug assertions
\* are compiled in; where they are not, it returns g^(s div x) mod n with
\* the quotient rounded down, and signals nothing.
C15_AssertsInDebugOnly ==
    (op = "mem_wit_create" /\ s % args.xs[1] # 0) =>
        IF debug
        THEN ret.tag = "panic"
        ELSE /\ ret.tag = "value"
             /\ ret.val = <<modpow(g, s \div args.xs[1], n)>>

\* C15 happens: in a debug build and a state with a_t = g^s, a call for a
\* prime that does not divide s > 1 has aborted.
C15_Witness ==
    /\ op = "mem_wit_create"
    /\ s > 1
    /\ s % args.xs[1] # 0
    /\ debug
    /\ valid_state
    /\ ret.tag = "panic"

\* C16: after any sequence of add, batch_add, del, del_w_mem and batch_del
\* calls within their preconditions, s is the product of the primes added
\* and not removed since; batch_del divides s by the prime of every pair,
\* the first one included.
C16_ProductOfMembers ==
    (op \in Mutators /\ Running) => s = product(SortedSeq(members))

\* The lists of at most MaxBatch elements of T in which some element
\* appears more than once.
RepeatLists ==
    [T \in SUBSET Primes |->
       { xs \in UNION { [1..k -> T] : k \in 2..MaxBatch } :
           \E i \in 1..Len(xs) : \E j \in 1..Len(xs) :
               i < j /\ xs[i] = xs[j] }]

\* Calls outside batch_del's precondition as well: pairs in which the same
\* prime appears again, each with a witness that verifies.
NextRepeat ==
    \/ Next
    \/ \E xs \in RepeatLists[members] :
         \E ws \in VerifyingWitnessLists(xs) : BatchDel(xs, ws)

SpecRepeat == Init /\ [][NextRepeat]_vars

\* C17: a batch_del that fails on pairs violating coprimality (the same
\* prime a second time at a later position) leaves s and a_t at their
\* values from before the call.
C17_FailedBatchDelKeepsState ==
    (op = "batch_del" /\ ret.tag = "panic") => (s = pre_s /\ a_t = pre_a)

\* The two deletions of C18 for one x: mem_wit_create answers with w, and
\* del_w_mem(w, x) leaves the s and a_t that del(x) leaves.
SameDeletion(x) ==
    LET w == mem_wit_create(x)
    IN  /\ w.tag = "value"
        /\ del_w_mem(w.val[1], x).s = del(x).s
        /\ del_w_mem(w.val[1], x).a_t = del(x).a_t

\* C18: from any reachable state and for any accumulated prime x with
\* w = mem_wit_create(x), del_w_mem(w, x) and del(x) lead to the same s and
\* the same a_t.
C18_DelWMemLikeDel ==
    Running =>
        \A x \in members : (s % x = 0) => SameDeletion(x)

\* add called once for each element of ys, in the order of ys, starting with
\* the fields cur_s and cur_a: [s, a_t, ret] after the last call, or after
\* the call whose debug assertion failed.
RECURSIVE add_each(_, _, _)
add_each(ys, cur_s, cur_a) ==
    IF ys = <<>> THEN [s |-> cur_s, a_t |-> cur_a, ret |-> Unit]
    ELSE IF debug /\ modpow(g, cur_s, n) # cur_a
         THEN [s |-> cur_s, a_t |-> cur_a, ret |-> Panic]
         ELSE add_each(Tail(ys), cur_s * Head(ys), modpow(cur_a, Head(ys), n))

\* The orderings of the list xs.
Orderings(xs) ==
    { ys \in BatchLists[Range(xs)] : Len(ys) = Len(xs) }

\* C19: from any reachable state and for any list xs of fresh primes,
\* batch_add(xs) leaves the s and a_t that calling add(x) once for each x of
\* xs leaves, in any order of the calls.
C19_BatchAddLikeAdds ==
    Running =>
        \A xs \in BatchLists[Primes \ used] : \A ys \in Orderings(xs) :
            LET one_by_one == add_each(ys, s, a_t)
                batched == batch_add(xs)
            IN  /\ one_by_one.ret = Unit
                /\ one_by_one.s = batched.s
                /\ one_by_one.a_t = batched.a_t

====
